---- MODULE Spec2Model ----
(***************************************************************************)
(* State-machine model of mechanicalsoup.StatefulBrowser                   *)
(* (lib/mechanicalsoup/stateful_browser.py).                               *)
(*                                                                         *)
(* Python None is the empty tuple, a present value v is <<v>>.             *)
(* Strings that the code inspects (hrefs, URLs, regular expressions) are   *)
(* tuples of one-character strings.  A parsed document is a tree of        *)
(* element records; document order is the pre-order of the tree.           *)
(***************************************************************************)
EXTENDS Integers, Sequences, FiniteSets, TLC

VARIABLES state, raise_on_404, debug, verbose, follow_defaults,
          download_defaults, files, handles, last, lastNav, track, solo, quiet

vars == <<state, raise_on_404, debug, verbose, follow_defaults,
          download_defaults, files, handles, last, lastNav, track, solo, quiet>>

----------------------------------------------------------------------------
(* Values *)

None == <<>>
Some(v) == <<v>>
Val(o) == o[1]

Browsers == {"A", "B"}

Paths == {"out"}

\* Paths of the modelled site.
PA1 == <<"/", "a", "1">>
PB1 == <<"/", "b", "1">>
PA2 == <<"/", "a", "2">>
PR == <<"/", "r">>
PC == <<"/", "c">>

\* "http://h" + p, and the relative reference p.
Url(p) == [abs |-> TRUE, path |-> p]
Rel(p) == [abs |-> FALSE, path |-> p]

\* The characters of a URL string.
Str(u) == IF u.abs THEN <<"http://h">> \o u.path ELSE u.path

----------------------------------------------------------------------------
(* Elements and documents *)

NoAttrs == [id |-> None, form |-> None, href |-> None, action |-> None,
            method |-> None]

E(eid, name, attrs, text, kids) ==
    [eid |-> eid, name |-> name, attrs |-> attrs, text |-> text, kids |-> kids]

has_attr(e, k) == e.attrs[k] # None

\* Document served at /a1 (and, through a redirect, at /r).
Doc1 ==
    << E(1, "a", [NoAttrs EXCEPT !.href = Some(Rel(PA1))], "A1", <<>>),
       E(2, "a", [NoAttrs EXCEPT !.href = Some(Rel(PB1))], "B1", <<>>),
       E(3, "a", [NoAttrs EXCEPT !.href = Some(Rel(PA2))], "A2", <<>>),
       E(4, "a", NoAttrs, "A1", <<>>),
       E(5, "form", [NoAttrs EXCEPT !.id = Some("f"), !.action = Some(Rel(PB1)),
                                    !.method = Some("post")], "",
            << E(6, "input", NoAttrs, "", <<>>) >>),
       E(7, "input", [NoAttrs EXCEPT !.form = Some("f")], "", <<>>) >>

\* Document served at /b1.
Doc2 ==
    << E(1, "form", [NoAttrs EXCEPT !.action = Some(Rel(PA1))], "",
            << E(2, "input", [NoAttrs EXCEPT !.form = Some("g")], "", <<>>) >>),
       E(3, "fieldset", [NoAttrs EXCEPT !.form = Some("g")], "",
            << E(4, "a", [NoAttrs EXCEPT !.href = Some(Rel(PR))], "R", <<>>),
               E(5, "input", [NoAttrs EXCEPT !.form = Some("x")], "", <<>>) >>),
       E(6, "form", [NoAttrs EXCEPT !.id = Some("g"), !.action = Some(Rel(PR))],
            "", <<>>),
       E(7, "div", [NoAttrs EXCEPT !.form = Some("g")], "", <<>>),
       E(8, "a", [NoAttrs EXCEPT !.href = Some(Url(PA1))], "A1", <<>>) >>

\* Body of the 404 answer.
Doc3 ==
    << E(1, "p", NoAttrs, "nf", <<>>) >>

DocNames == {"D1", "D2", "D3"}

DocText(d) == CASE d = "D1" -> Doc1 [] d = "D2" -> Doc2 [] OTHER -> Doc3

\* bs4.BeautifulSoup(text): the parsed document.
Parse(d) == [doc |-> d, nodes |-> DocText(d)]

RECURSIVE Flatten(_)
\* The elements of a forest in document order.
Flatten(nodes) ==
    IF nodes = <<>> THEN <<>>
    ELSE <<Head(nodes)>> \o Flatten(Head(nodes).kids) \o Flatten(Tail(nodes))

\* The eids of a list of elements.
IdsOf(els) == [i \in 1..Len(els) |-> els[i].eid]

\* The eids of a forest, in document order.
Eids(nodes) == IdsOf(Flatten(nodes))

Range(s) == {s[i] : i \in 1..Len(s)}

\* The element of the forest with this eid.
Lookup(nodes, eid) ==
    LET f == Flatten(nodes) IN f[CHOOSE i \in 1..Len(f) : f[i].eid = eid]

RECURSIVE RemoveNode(_, _)
\* Tag.extract(): the forest without the subtree rooted at eid.
RemoveNode(nodes, eid) ==
    IF nodes = <<>> THEN <<>>
    ELSE LET h == Head(nodes) IN
         IF h.eid = eid THEN RemoveNode(Tail(nodes), eid)
         ELSE <<[h EXCEPT !.kids = RemoveNode(h.kids, eid)]>>
              \o RemoveNode(Tail(nodes), eid)

RECURSIVE AppendTo(_, _, _)
\* Tag.append(node) on the element target of the forest.
AppendTo(nodes, target, node) ==
    IF nodes = <<>> THEN <<>>
    ELSE LET h == Head(nodes) IN
         IF h.eid = target
         THEN <<[h EXCEPT !.kids = Append(h.kids, node)]>> \o Tail(nodes)
         ELSE <<[h EXCEPT !.kids = AppendTo(h.kids, target, node)]>>
              \o AppendTo(Tail(nodes), target, node)

----------------------------------------------------------------------------
(* Collaborators: HTML queries, regular expressions, URL joining, HTTP *)

\* Tag names that select_form.find_associated_elements looks for.
elements_with_owner_form ==
    <<"input", "button", "fieldset", "object", "output", "select", "textarea">>

\* page.find_all(name, form=form_id): elements of that name whose form
\* attribute is form_id, in document order.
find_all_form(nodes, name, form_id) ==
    SelectSeq(Flatten(nodes),
              LAMBDA e : e.name = name /\ e.attrs.form = Some(form_id))

\* page.find_all('a', href=True)
find_all_a_href(nodes) ==
    SelectSeq(Flatten(nodes), LAMBDA e : e.name = "a" /\ has_attr(e, "href"))

\* CSS selectors, a tag name or "#id": [kind, val].
Matches(e, selector) ==
    IF selector.kind = "tag" THEN e.name = selector.val
    ELSE e.attrs.id = Some(selector.val)

\* select returning every match, whatever the limit.
select_without_limit(nodes, selector, limit) ==
    SelectSeq(Flatten(nodes), LAMBDA e : Matches(e, selector))

\* page.select(selector, limit): at most limit matches, in document order.
select(nodes, selector, limit) ==
    LET m == SelectSeq(Flatten(nodes), LAMBDA e : Matches(e, selector))
    IN IF Len(m) <= limit THEN m ELSE SubSeq(m, 1, limit)

\* Regular expressions, "^lit" (anch) or "lit": [anch, lit].
\* re.search(pat, s)
re_search(pat, s) ==
    LET n == Len(pat.lit) IN
    IF pat.anch THEN n <= Len(s) /\ SubSeq(s, 1, n) = pat.lit
    ELSE \E i \in 0..(Len(s) - n) : SubSeq(s, i + 1, i + n) = pat.lit

\* urllib.parse.urljoin(base, ref) for absolute and absolute-path references.
urljoin(base, ref) ==
    IF base = None THEN ref
    ELSE IF ref.abs THEN ref
    ELSE [abs |-> Val(base).abs, path |-> ref.path]

\* Header dictionaries are sets of [k, v] entries.
Lower(k) == IF k \in {"Referer", "REFERER", "referer"} THEN "referer" ELSE k

\* name in CaseInsensitiveDict(d)
ci_contains(d, name) == \E e \in d : Lower(e.k) = Lower(name)

\* What the site answers for a path, redirects followed.
Site(path) ==
    CASE path = PA1 -> [status |-> 200, path |-> PA1, doc |-> "D1", redirected |-> FALSE]
      [] path = PB1 -> [status |-> 200, path |-> PB1, doc |-> "D2", redirected |-> FALSE]
      [] path = PR  -> [status |-> 200, path |-> PA1, doc |-> "D1", redirected |-> TRUE]
      [] OTHER      -> [status |-> 404, path |-> path, doc |-> "D3", redirected |-> FALSE]

Request(method, url, headers) ==
    [method |-> method, url |-> url,
     headers |-> IF headers = None THEN {} ELSE Val(headers)]

\* session.send(request): the transport raises when the network is down or
\* the URL has no scheme; otherwise the response of the last hop.
session_send(req, netOk) ==
    IF ~netOk \/ ~req.url.abs
    THEN [ok |-> FALSE]
    ELSE LET a == Site(req.url.path) IN
         [ok |-> TRUE, url |-> Url(a.path), status_code |-> a.status,
          content |-> a.doc,
          request |-> [req EXCEPT !.url = Url(a.path),
                                  !.method = IF a.redirected THEN "GET" ELSE @]]

----------------------------------------------------------------------------
(* StatefulBrowser.  An operation maps the world a browser sees,            *)
(* w = [state, debug, verbose, fd, dd, files, handles, out], to the world   *)
(* it leaves and what it did: state is the instance's _BrowserState, debug  *)
(* and verbose its two flags, fd and dd are the default bs4_kwargs          *)
(* dictionaries of follow_link and download_link (created once, when the    *)
(* class body is executed), files is the file system, handles the files     *)
(* the process holds open and out what the call has printed or launched.    *)

_BrowserState(page, url, form, request) ==
    [page |-> page, url |-> url, form |-> form, request |-> request]

Res(w, outcome, sent, result) ==
    [w |-> w, outcome |-> outcome, sent |-> sent, result |-> result]

\* Keyword dictionaries passed on to links().
EmptyDict == [url_regex |-> None, link_text |-> None]

\* dict.update
dict_update(d, kw) ==
    [url_regex |-> IF kw.url_regex # None THEN kw.url_regex ELSE d.url_regex,
     link_text |-> IF kw.link_text # None THEN kw.link_text ELSE d.link_text]

\* print(...) and sys.stdout.write(...): what is written, as an event.
print(w, ev) == [w EXCEPT !.out = Append(@, ev)]

set_debug(w, d) == Res([w EXCEPT !.debug = d], "ok", <<>>, <<>>)

set_verbose(w, v) == Res([w EXCEPT !.verbose = v], "ok", <<>>, <<>>)

\* launch_browser(): the viewer is started on the current page.
launch_browser(w) == print(w, "launch_browser")

\* Browser.get: session.get, the raise_on_404 check, then add_soup.
get(cfg, url, kwargs, netOk) ==
    LET req == Request("GET", url, kwargs)
        r == session_send(req, netOk)
    IN IF ~r.ok THEN [outcome |-> "TransportError", sent |-> <<req>>]
       ELSE IF cfg /\ r.status_code = 404
            THEN [outcome |-> "NotFound", sent |-> <<req>>]
            ELSE [outcome |-> "ok", sent |-> <<req>>, url |-> r.url,
                  soup |-> Parse(r.content), request |-> r.request]

\* Form.choose_submit: picks the control used for the submission.
choose_submit(tag, btnName) == btnName

\* Browser.submit: the request a form describes, sent through the session.
submit(tag, url, kwargs, netOk) ==
    LET action == tag.node.attrs.action
        method == IF tag.node.attrs.method = Some("post") THEN "POST" ELSE "GET"
        target == IF action = None THEN url ELSE Some(urljoin(url, Val(action)))
    IN IF target = None THEN [outcome |-> "TransportError", sent |-> <<>>]
       ELSE LET req == Request(method, Val(target), kwargs)
                r == session_send(req, netOk)
            IN IF ~r.ok THEN [outcome |-> "TransportError", sent |-> <<req>>]
               ELSE [outcome |-> "ok", sent |-> <<req>>, url |-> r.url,
                     soup |-> Parse(r.content), request |-> r.request]

\* The form property: [outcome, form].
form(st) ==
    IF st.form = None THEN [outcome |-> "UnselectedForm"]
    ELSE [outcome |-> "ok", form |-> st.form]

absolute_url(st, url) == urljoin(st.url, url)

\* open building the new state around the old selected form.
open_keeps_form(w, cfg, url, kwargs, netOk) ==
    LET resp == get(cfg, url, kwargs, netOk) IN
    IF resp.outcome # "ok" THEN Res(w, resp.outcome, resp.sent, <<>>)
    ELSE Res([w EXCEPT !.state = _BrowserState(Some(resp.soup), Some(resp.url),
                                               w.state.form, Some(resp.request))],
             "ok", resp.sent, <<>>)

\* open storing the URL it was asked for.
open_stores_requested_url(w, cfg, url, kwargs, netOk) ==
    LET resp == get(cfg, url, kwargs, netOk) IN
    IF resp.outcome # "ok" THEN Res(w, resp.outcome, resp.sent, <<>>)
    ELSE Res([w EXCEPT !.state = _BrowserState(Some(resp.soup), Some(url),
                                               None, Some(resp.request))],
             "ok", resp.sent, <<>>)

\* open changing the state before the response is there.
open_clears_first(w, cfg, url, kwargs, netOk) ==
    LET resp == get(cfg, url, kwargs, netOk) IN
    IF resp.outcome # "ok"
    THEN Res([w EXCEPT !.state = _BrowserState(None, None, None, None)],
             resp.outcome, resp.sent, <<>>)
    ELSE Res([w EXCEPT !.state = _BrowserState(Some(resp.soup), Some(resp.url),
                                               None, Some(resp.request))],
             "ok", resp.sent, <<>>)

open(w, cfg, url, kwargs, netOk) ==
    LET w0 == IF w.verbose = 1 THEN print(w, "dot")
              ELSE IF w.verbose >= 2 THEN print(w, "url") ELSE w
        resp == get(cfg, url, kwargs, netOk)
    IN IF resp.outcome # "ok" THEN Res(w0, resp.outcome, resp.sent, <<>>)
       ELSE Res([w0 EXCEPT !.state = _BrowserState(Some(resp.soup), Some(resp.url),
                                                   None, Some(resp.request))],
                "ok", resp.sent, <<>>)

\* open_fake_page keeping the request of the page before.
open_fake_page_keeps_request(w, page_text, url) ==
    Res([w EXCEPT !.state = _BrowserState(Some(Parse(page_text)), url, None,
                                          w.state.request)],
        "ok", <<>>, <<>>)

open_fake_page(w, page_text, url) ==
    Res([w EXCEPT !.state = _BrowserState(Some(Parse(page_text)), url, None, None)],
        "ok", <<>>, <<>>)

open_relative(w, cfg, url, kwargs, netOk) ==
    open(w, cfg, absolute_url(w.state, url), kwargs, netOk)

\* refresh asking for the current url again instead of sending the request
\* it holds.
refresh_rebuilds_request(w, netOk) ==
    LET old_request == w.state.request IN
    IF old_request = None THEN Res(w, "Unrefreshable", <<>>, <<>>)
    ELSE LET req == Request("GET", Val(w.state.url), None)
             resp == session_send(req, netOk)
         IN IF ~resp.ok THEN Res(w, "TransportError", <<req>>, <<>>)
            ELSE Res([w EXCEPT !.state =
                          _BrowserState(Some(Parse(resp.content)), Some(resp.url),
                                        None, Some(resp.request))],
                     "ok", <<req>>, <<>>)

\* refresh building the new state without the url.
refresh_drops_url(w, netOk) ==
    LET old_request == w.state.request IN
    IF old_request = None THEN Res(w, "Unrefreshable", <<>>, <<>>)
    ELSE LET resp == session_send(Val(old_request), netOk) IN
         IF ~resp.ok THEN Res(w, "TransportError", <<Val(old_request)>>, <<>>)
         ELSE Res([w EXCEPT !.state =
                       _BrowserState(Some(Parse(resp.content)), None,
                                     None, Some(resp.request))],
                  "ok", <<Val(old_request)>>, <<>>)

refresh(w, netOk) ==
    LET old_request == w.state.request IN
    IF old_request = None THEN Res(w, "Unrefreshable", <<>>, <<>>)
    ELSE LET resp == session_send(Val(old_request), netOk) IN
         IF ~resp.ok THEN Res(w, "TransportError", <<Val(old_request)>>, <<>>)
         ELSE Res([w EXCEPT !.state =
                       _BrowserState(Some(Parse(resp.content)), Some(resp.url),
                                     None, Some(resp.request))],
                  "ok", <<Val(old_request)>>, <<>>)

RECURSIVE find_associated_from(_, _, _)
find_associated_from(names, nodes, form_id) ==
    IF names = <<>> THEN <<>>
    ELSE IdsOf(find_all_form(nodes, Head(names), form_id))
         \o find_associated_from(Tail(names), nodes, form_id)

\* select_form.find_associated_elements: the elements found, as eids, in
\* the order the loop over the tag names finds them.
find_associated_elements(nodes, form_id) ==
    find_associated_from(elements_with_owner_form, nodes, form_id)

RECURSIVE extend_own(_, _, _)
\* form.extend(new_elements) for a form of the page: each element is taken
\* out of its place, with its subtree, and appended to the form.
extend_own(nodes, formEid, eids) ==
    IF eids = <<>> THEN nodes
    ELSE LET n == Lookup(nodes, Head(eids)) IN
         extend_own(AppendTo(RemoveNode(nodes, Head(eids)), formEid, n),
                    formEid, Tail(eids))

RECURSIVE extend_foreign(_, _, _)
\* form.extend(new_elements) for a form element that is not in the page.
extend_foreign(nodes, tag, eids) ==
    IF eids = <<>> THEN [nodes |-> nodes, form |-> tag]
    ELSE LET n == Lookup(nodes, Head(eids)) IN
         extend_foreign(RemoveNode(nodes, Head(eids)),
                        [tag EXCEPT !.kids = Append(@, n)], Tail(eids))

\* Form(form): the wrapper kept in the state.
Form(own, doc, node) == [own |-> own, doc |-> doc, node |-> node]

select_form(w, selector, nr) ==
    LET st == w.state
        NotFound == Res(w, "NotFound", <<>>, <<>>)
        NoPage == Res(w, "NoPage", <<>>, <<>>)
        \* lines 239-242
        NoMatch == Res(IF w.debug
                       THEN launch_browser(print(w, "select_form failed"))
                       ELSE w,
                       "NotFound", <<>>, <<>>)
        \* lines 246-253, for the element el
        Store(el, own, doc) ==
            IF has_attr(el, "id")
            THEN IF st.page = None THEN NoPage
                 ELSE LET pg == Val(st.page)
                          new_elements ==
                              find_associated_elements(pg.nodes, Val(el.attrs.id))
                      IN IF own
                         THEN LET nodes == extend_own(pg.nodes, el.eid, new_elements)
                              IN Res([w EXCEPT !.state.page = Some([pg EXCEPT !.nodes = nodes]),
                                               !.state.form =
                                                   Some(Form(TRUE, doc, Lookup(nodes, el.eid)))],
                                     "ok", <<>>, <<>>)
                         ELSE LET x == extend_foreign(pg.nodes, el, new_elements)
                              IN Res([w EXCEPT !.state.page = Some([pg EXCEPT !.nodes = x.nodes]),
                                               !.state.form = Some(Form(FALSE, doc, x.form))],
                                     "ok", <<>>, <<>>)
            ELSE Res([w EXCEPT !.state.form = Some(Form(own, doc, el))],
                     "ok", <<>>, <<>>)
    IN IF selector.isTag
       THEN LET el == IF selector.own THEN Lookup(Val(st.page).nodes, selector.eid)
                      ELSE Lookup(DocText(selector.doc), selector.eid)
            IN IF el.name # "form" THEN NotFound
               ELSE Store(el, selector.own, selector.doc)
       ELSE IF st.page = None THEN NoPage
            ELSE LET found_forms == select(Val(st.page).nodes, selector.css, nr + 1)
                 IN IF Len(found_forms) # nr + 1 THEN NoMatch
                    ELSE Store(found_forms[Len(found_forms)], TRUE, Val(st.page).doc)

\* _merge_referer looking the header up in a plain dict.
_merge_referer_case_sensitive(st, kwargs) ==
    LET referer == st.url
        headers == IF kwargs = None THEN {} ELSE Val(kwargs)
    IN IF referer # None /\ ~(\E e \in headers : e.k = "Referer")
       THEN Some(headers \cup {[k |-> "Referer", v |-> Val(referer)]})
       ELSE kwargs

\* kwargs are the headers passed on to requests (None: no headers keyword).
_merge_referer(st, kwargs) ==
    LET referer == st.url
        headers == IF kwargs = None THEN {} ELSE Val(kwargs)
    IN IF referer # None /\ ~ci_contains(headers, "Referer")
       THEN Some(headers \cup {[k |-> "Referer", v |-> Val(referer)]})
       ELSE kwargs

\* submit_selected replacing the state whatever update_state says.
submit_selected_always_updates(w, btnName, update_state, kwargs, netOk) ==
    IF form(w.state).outcome # "ok" THEN Res(w, form(w.state).outcome, <<>>, <<>>)
    ELSE LET kw == _merge_referer(w.state, kwargs)
             resp == submit(Val(form(w.state).form), w.state.url, kw, netOk)
         IN IF resp.outcome # "ok" THEN Res(w, resp.outcome, resp.sent, <<>>)
            ELSE Res([w EXCEPT !.state =
                          _BrowserState(Some(resp.soup), Some(resp.url),
                                        None, Some(resp.request))],
                     "ok", resp.sent, <<>>)

\* submit_selected dropping the state when no form is selected.
submit_selected_clears_state(w, btnName, update_state, kwargs, netOk) ==
    IF form(w.state).outcome # "ok"
    THEN Res([w EXCEPT !.state = _BrowserState(None, None, None, None)],
             form(w.state).outcome, <<>>, <<>>)
    ELSE LET kw == _merge_referer(w.state, kwargs)
             resp == submit(Val(w.state.form), w.state.url, kw, netOk)
         IN IF resp.outcome # "ok" THEN Res(w, resp.outcome, resp.sent, <<>>)
            ELSE IF update_state
                 THEN Res([w EXCEPT !.state =
                               _BrowserState(Some(resp.soup), Some(resp.url),
                                             None, Some(resp.request))],
                          "ok", resp.sent, <<>>)
                 ELSE Res(w, "ok", resp.sent, <<>>)

submit_selected(w, btnName, update_state, kwargs, netOk) ==
    IF form(w.state).outcome # "ok" THEN Res(w, form(w.state).outcome, <<>>, <<>>)
    ELSE LET chosen == choose_submit(Val(form(w.state).form), btnName)
             kw == _merge_referer(w.state, kwargs)
             resp == submit(Val(w.state.form), w.state.url, kw, netOk)
         IN IF resp.outcome # "ok" THEN Res(w, resp.outcome, resp.sent, <<>>)
            ELSE IF update_state
                 THEN Res([w EXCEPT !.state =
                               _BrowserState(Some(resp.soup), Some(resp.url),
                                             None, Some(resp.request))],
                          "ok", resp.sent, <<>>)
                 ELSE Res(w, "ok", resp.sent, <<>>)

\* links filtering the text on the unfiltered list.
links_text_filter_on_all(st, kw) ==
    LET all_links == find_all_a_href(Val(st.page).nodes)
        by_url == IF kw.url_regex # None
                  THEN SelectSeq(all_links,
                           LAMBDA a : re_search(Val(kw.url_regex), Str(Val(a.attrs.href))))
                  ELSE all_links
    IN IF kw.link_text # None
       THEN SelectSeq(all_links, LAMBDA a : a.text = Val(kw.link_text))
       ELSE by_url

\* links(**kw): the anchors found, as elements.
links(st, kw) ==
    LET all_links == find_all_a_href(Val(st.page).nodes)
        by_url == IF kw.url_regex # None
                  THEN SelectSeq(all_links,
                           LAMBDA a : re_search(Val(kw.url_regex), Str(Val(a.attrs.href))))
                  ELSE all_links
    IN IF kw.link_text # None
       THEN SelectSeq(by_url, LAMBDA a : a.text = Val(kw.link_text))
       ELSE by_url

\* A Tag handed on as url_regex (line 354).
TagPattern == [anch |-> FALSE, lit |-> <<>>, tag |-> TRUE]

IsTagPattern(pat) == "tag" \in DOMAIN pat

RECURSIVE print_each(_, _)
print_each(w, ls) ==
    IF ls = <<>> THEN w ELSE print_each(print(w, "link"), Tail(ls))

\* list_links(): the links of the current page, printed.
list_links(w) ==
    print_each(print(w, "Links in the current page:"), links(w.state, EmptyDict))

\* find_link(**kw): [outcome, link].  re.search raises TypeError for a
\* pattern that is a Tag, as soon as links() has an anchor to test.
find_link(st, kw) ==
    IF st.page = None THEN [outcome |-> "NoPage"]
    ELSE IF /\ kw.url_regex # None /\ IsTagPattern(Val(kw.url_regex))
            /\ Len(find_all_a_href(Val(st.page).nodes)) > 0
         THEN [outcome |-> "TypeError"]
         ELSE LET ls == links(st, kw) IN
              IF Len(ls) = 0 THEN [outcome |-> "NotFound"]
              ELSE [outcome |-> "ok", link |-> ls[1]]

\* The element a link handle stands for.
LinkElement(st, link) ==
    IF link.own THEN Lookup(Val(st.page).nodes, link.eid)
    ELSE Lookup(DocText(link.doc), link.eid)

\* _find_link_internal letting the link argument override url_regex.
_find_link_internal_link_wins(w, link, kwargs) ==
    IF link.kind = "tag" /\ has_attr(LinkElement(w.state, link), "href")
    THEN [outcome |-> "ok", kwargs |-> kwargs, w |-> w,
          link |-> LinkElement(w.state, link)]
    ELSE LET kw == IF link.kind = "pattern"
                   THEN [kwargs EXCEPT !.url_regex = Some(link.pat)]
                   ELSE IF link.kind = "tag"
                        THEN [kwargs EXCEPT !.url_regex = Some(TagPattern)]
                        ELSE kwargs
             f == find_link(w.state, kw)
         IN IF f.outcome = "ok"
            THEN [outcome |-> "ok", kwargs |-> kw, w |-> w, link |-> f.link]
            ELSE [outcome |-> f.outcome, kwargs |-> kw, w |-> w]

\* _find_link_internal returning nothing when the lookup fails in debug mode.
_find_link_internal_debug_swallows(w, link, kwargs) ==
    IF link.kind = "tag" /\ has_attr(LinkElement(w.state, link), "href")
    THEN [outcome |-> "ok", kwargs |-> kwargs, w |-> w,
          link |-> LinkElement(w.state, link)]
    ELSE IF link.kind # "none" /\ kwargs.url_regex # None
         THEN [outcome |-> "ConflictingArgument", kwargs |-> kwargs, w |-> w]
         ELSE LET kw == IF link.kind = "pattern"
                        THEN [kwargs EXCEPT !.url_regex = Some(link.pat)]
                        ELSE IF link.kind = "tag"
                             THEN [kwargs EXCEPT !.url_regex = Some(TagPattern)]
                             ELSE kwargs
                  f == find_link(w.state, kw)
              IN IF f.outcome = "ok"
                 THEN [outcome |-> "ok", kwargs |-> kw, w |-> w, link |-> f.link]
                 ELSE IF f.outcome = "NotFound" /\ w.debug
                      THEN [outcome |-> "NoneReturned", kwargs |-> kw,
                            w |-> launch_browser(list_links(print(w, "find_link failed")))]
                      ELSE [outcome |-> f.outcome, kwargs |-> kw, w |-> w]

\* _find_link_internal(link, args, kwargs): [outcome, link, kwargs, w],
\* kwargs being the dictionary as the call leaves it and w the world with
\* what the call printed.  A link that is a Tag without href is truthy and
\* is taken for the url_regex.
_find_link_internal(w, link, kwargs) ==
    IF link.kind = "tag" /\ has_attr(LinkElement(w.state, link), "href")
    THEN [outcome |-> "ok", kwargs |-> kwargs, w |-> w,
          link |-> LinkElement(w.state, link)]
    ELSE IF link.kind # "none" /\ kwargs.url_regex # None
         THEN [outcome |-> "ConflictingArgument", kwargs |-> kwargs, w |-> w]
         ELSE LET kw == IF link.kind = "pattern"
                        THEN [kwargs EXCEPT !.url_regex = Some(link.pat)]
                        ELSE IF link.kind = "tag"
                             THEN [kwargs EXCEPT !.url_regex = Some(TagPattern)]
                             ELSE kwargs
                  f == find_link(w.state, kw)
              IN IF f.outcome = "ok"
                 THEN [outcome |-> "ok", kwargs |-> kw, w |-> w, link |-> f.link]
                 ELSE IF f.outcome = "NotFound" /\ w.debug
                      THEN [outcome |-> "NotFound", kwargs |-> kw,
                            w |-> launch_browser(list_links(print(w, "find_link failed")))]
                      ELSE [outcome |-> f.outcome, kwargs |-> kw, w |-> w]

\* bs4_kwargs is None when the caller leaves the parameter to its default.
follow_link(w, cfg, link, bs4_kwargs, requests_kwargs, kwargs, netOk) ==
    LET dflt == bs4_kwargs = None
        d == dict_update(IF dflt THEN w.fd ELSE Val(bs4_kwargs), kwargs)
        f == _find_link_internal(w, link, d)
        w1 == IF dflt THEN [f.w EXCEPT !.fd = f.kwargs] ELSE f.w
    IN IF f.outcome # "ok" THEN Res(w1, f.outcome, <<>>, <<>>)
       ELSE LET rk == _merge_referer(w.state, requests_kwargs)
                r == open_relative(w1, cfg, Val(f.link.attrs.href), rk, netOk)
            IN [r EXCEPT !.result = <<f.link.eid>>]

\* download_link going through open_relative, as follow_link does.
download_link_through_open(w, cfg, link, file, bs4_kwargs, requests_kwargs, kwargs, netOk, diskOk) ==
    LET dflt == bs4_kwargs = None
        d == dict_update(IF dflt THEN w.dd ELSE Val(bs4_kwargs), kwargs)
        f == _find_link_internal(w, link, d)
        w1 == IF dflt THEN [f.w EXCEPT !.dd = f.kwargs] ELSE f.w
    IN IF f.outcome # "ok" THEN Res(w1, f.outcome, <<>>, <<>>)
       ELSE LET rk == _merge_referer(w.state, requests_kwargs)
                r == open_relative(w1, cfg, Val(f.link.attrs.href), rk, netOk)
            IN [r EXCEPT !.result = <<f.link.eid>>]

\* download_link opening the file before it looks at the status, and
\* without the with block.
download_link_opens_early(w, cfg, link, file, bs4_kwargs, requests_kwargs, kwargs, netOk, diskOk) ==
    LET dflt == bs4_kwargs = None
        d == dict_update(IF dflt THEN w.dd ELSE Val(bs4_kwargs), kwargs)
        f == _find_link_internal(w, link, d)
        w1 == IF dflt THEN [f.w EXCEPT !.dd = f.kwargs] ELSE f.w
    IN IF f.outcome # "ok" THEN Res(w1, f.outcome, <<>>, <<>>)
       ELSE LET url == absolute_url(w.state, Val(f.link.attrs.href))
                rk == _merge_referer(w.state, requests_kwargs)
                req == Request("GET", url, rk)
                response == session_send(req, netOk)
            IN IF ~response.ok THEN Res(w1, "TransportError", <<req>>, <<f.link.eid>>)
               ELSE IF file = None
                    THEN Res(w1, IF cfg /\ response.status_code = 404
                                 THEN "NotFound" ELSE "ok", <<req>>, <<f.link.eid>>)
                    ELSE LET p == Val(file)
                             opened == [w1 EXCEPT !.files[p] = Some("empty"),
                                                  !.handles = @ \cup {p}]
                         IN IF cfg /\ response.status_code = 404
                            THEN Res(opened, "NotFound", <<req>>, <<f.link.eid>>)
                            ELSE IF diskOk
                                 THEN Res([opened EXCEPT !.files[p] = Some(response.content),
                                                         !.handles = @ \ {p}],
                                          "ok", <<req>>, <<f.link.eid>>)
                                 ELSE Res(opened, "IOError", <<req>>, <<f.link.eid>>)

\* diskOk tells whether f.write succeeds.  open(file, 'wb') creates or
\* truncates the file; leaving the with block closes it.
download_link(w, cfg, link, file, bs4_kwargs, requests_kwargs, kwargs, netOk, diskOk) ==
    LET dflt == bs4_kwargs = None
        d == dict_update(IF dflt THEN w.dd ELSE Val(bs4_kwargs), kwargs)
        f == _find_link_internal(w, link, d)
        w1 == IF dflt THEN [f.w EXCEPT !.dd = f.kwargs] ELSE f.w
    IN IF f.outcome # "ok" THEN Res(w1, f.outcome, <<>>, <<>>)
       ELSE LET url == absolute_url(w.state, Val(f.link.attrs.href))
                rk == _merge_referer(w.state, requests_kwargs)
                req == Request("GET", url, rk)
                response == session_send(req, netOk)
            IN IF ~response.ok THEN Res(w1, "TransportError", <<req>>, <<f.link.eid>>)
               ELSE IF cfg /\ response.status_code = 404
                    THEN Res(w1, "NotFound", <<req>>, <<f.link.eid>>)
                    ELSE IF file = None
                         THEN Res(w1, "ok", <<req>>, <<f.link.eid>>)
                         ELSE LET p == Val(file)
                                  opened == [w1 EXCEPT !.files[p] = Some("empty"),
                                                       !.handles = @ \cup {p}]
                                  written == IF diskOk
                                             THEN [opened EXCEPT !.files[p] =
                                                       Some(response.content)]
                                             ELSE opened
                                  closed == [written EXCEPT !.handles = @ \ {p}]
                              IN Res(closed, IF diskOk THEN "ok" ELSE "IOError",
                                     <<req>>, <<f.link.eid>>)

----------------------------------------------------------------------------
(* Inputs.  A profile In names the instances that are used and the sets     *)
(* the arguments of each operation are drawn from.                          *)

HRef == Some({[k |-> "Referer", v |-> Url(PC)]})
Href == Some({[k |-> "referer", v |-> Url(PC)]})
HREF == Some({[k |-> "REFERER", v |-> Url(PC)]})
HTag == Some({[k |-> "X-Tag", v |-> Url(PC)]})

Css(kind, val) == [isTag |-> FALSE, css |-> [kind |-> kind, val |-> val]]
Foreign(doc, eid) == [isTag |-> TRUE, own |-> FALSE, doc |-> doc, eid |-> eid]
Kw(r, t) == [url_regex |-> r, link_text |-> t]
RxA == [anch |-> TRUE, lit |-> <<"/", "a">>]
Rx1 == [anch |-> FALSE, lit |-> <<"1">>]
RxZ == [anch |-> FALSE, lit |-> <<"z">>]
Opt(headers, netOk) == [headers |-> headers, netOk |-> netOk]

\* Handles of elements of the current page.
OwnHandles(st) ==
    IF st.page = None THEN {}
    ELSE {[isTag |-> TRUE, own |-> TRUE, doc |-> Val(st.page).doc, eid |-> e]
            : e \in Range(Eids(Val(st.page).nodes))}

\* Handles of the links of the current page, as links() returns them.
OwnLinks(st) ==
    IF st.page = None THEN {}
    ELSE {[kind |-> "tag", own |-> TRUE, doc |-> Val(st.page).doc, eid |-> e]
            : e \in Range(IdsOf(find_all_a_href(Val(st.page).nodes)))}

\* The selector argument of select_form with its index nr.
SelectorArgs(In, st) ==
    {[selector |-> c, nr |-> n] : c \in In.css, n \in In.nrs}
      \cup {[selector |-> h, nr |-> 0]
              : h \in (IF In.ownHandles THEN OwnHandles(st) ELSE {}) \cup In.foreign}

\* The link argument: nothing, a pattern, a link of the current page, or a
\* link of a document the caller parsed itself.
LinkArgs(In, st) ==
    {[kind |-> "none"]} \cup {[kind |-> "pattern", pat |-> p] : p \in In.linkPatterns}
      \cup (IF In.ownLinks THEN OwnLinks(st) ELSE {})
      \cup In.foreignLinks

----------------------------------------------------------------------------
(* The state machine *)

World(b) == [state |-> state[b], debug |-> debug[b], verbose |-> verbose[b],
             fd |-> follow_defaults, dd |-> download_defaults,
             files |-> files, handles |-> handles, out |-> <<>>]

\* The run of browser B alone has followed the real one so far.
InStep == /\ solo.w.state = state["B"]
          /\ solo.outcome = solo.seen.outcome
          /\ solo.result = solo.seen.result

\* What a call leaves behind, the two flags apart.
Effect(r) == [state |-> r.w.state, fd |-> r.w.fd, dd |-> r.w.dd,
              files |-> r.w.files, handles |-> r.w.handles,
              outcome |-> r.outcome, sent |-> r.sent, result |-> r.result]

InitWith(In) ==
    /\ state = [b \in Browsers |-> _BrowserState(None, None, None, None)]
    /\ raise_on_404 \in [Browsers -> In.raise]
    /\ debug = [b \in Browsers |-> FALSE]
    /\ verbose = [b \in Browsers |-> 0]
    /\ follow_defaults = EmptyDict
    /\ download_defaults = EmptyDict
    /\ files = [p \in Paths |-> None]
    /\ handles = {}
    /\ last = [op |-> "init", b |-> "B", args |-> <<>>,
               outcome |-> "ok", sent |-> <<>>, result |-> <<>>, out |-> <<>>,
               before |-> [sel |-> FALSE, req |-> None, side |-> FALSE]]
    /\ lastNav = [b \in Browsers |-> "init"]
    /\ track = [b \in Browsers |-> [sel |-> FALSE, req |-> None, side |-> FALSE]]
    /\ solo = [w |-> [state |-> _BrowserState(None, None, None, None),
                      debug |-> FALSE, verbose |-> 0,
                      fd |-> EmptyDict, dd |-> EmptyDict,
                      files |-> [p \in Paths |-> None], handles |-> {},
                      out |-> <<>>],
               outcome |-> "ok", result |-> <<>>,
               seen |-> [outcome |-> "ok", result |-> <<>>]]
    /\ quiet = Effect(Res([state |-> _BrowserState(None, None, None, None),
                           fd |-> EmptyDict, dd |-> EmptyDict,
                           files |-> [p \in Paths |-> None], handles |-> {}],
                          "ok", <<>>, <<>>))

\* One call op(args) on browser b, R being the operation; nav tells how a
\* successful call builds the state ("net", "fake") or "none".  track follows
\* the history of b (last.before is that history before the call): whether a form was selected since the state was last
\* replaced, the request the last replacement stored, and whether a call
\* that keeps the state has sent a request since.  quiet is what the same
\* call leaves with debug off and verbose 0.
Step(b, op, args, nav, R(_)) ==
    \E r \in {R(World(b))} :
    LET replaced == nav # "none" /\ r.outcome = "ok" IN
    /\ state' = [state EXCEPT ![b] = r.w.state]
    /\ debug' = [debug EXCEPT ![b] = r.w.debug]
    /\ verbose' = [verbose EXCEPT ![b] = r.w.verbose]
    /\ follow_defaults' = r.w.fd
    /\ download_defaults' = r.w.dd
    /\ files' = r.w.files
    /\ handles' = r.w.handles
    /\ last' = [op |-> op, b |-> b, args |-> args,
                outcome |-> r.outcome, sent |-> r.sent, result |-> r.result,
                out |-> r.w.out, before |-> track[b]]
    /\ lastNav' = IF replaced THEN [lastNav EXCEPT ![b] = nav] ELSE lastNav
    /\ track' = [track EXCEPT ![b] =
                    [sel |-> IF replaced THEN FALSE
                             ELSE IF op = "select_form" /\ r.outcome = "ok" THEN TRUE
                             ELSE @.sel,
                     req |-> IF replaced THEN r.w.state.request ELSE @.req,
                     side |-> IF replaced THEN FALSE
                              ELSE IF r.outcome = "ok" /\ r.sent # <<>> THEN TRUE
                              ELSE @.side]]
    /\ solo' = IF b = "B" /\ InStep
               THEN LET sr == IF solo.w = World(b) THEN r ELSE R(solo.w) IN
                    [w |-> [sr.w EXCEPT !.out = <<>>],
                     outcome |-> sr.outcome, result |-> sr.result,
                     seen |-> [outcome |-> r.outcome, result |-> r.result]]
               ELSE solo
    /\ quiet' = IF ~debug[b] /\ verbose[b] = 0 THEN Effect(r)
                ELSE Effect(R([World(b) EXCEPT !.debug = FALSE, !.verbose = 0]))
    /\ UNCHANGED raise_on_404

SetDebug(In, b) ==
    \E d \in In.debugs :
        Step(b, "set_debug", [debug |-> d], "none", LAMBDA w : set_debug(w, d))

SetVerbose(In, b) ==
    \E v \in In.verbosities :
        Step(b, "set_verbose", [verbose |-> v], "none",
             LAMBDA w : set_verbose(w, v))

Open(In, b) ==
    \E url \in In.openUrls, o \in In.openOpts :
        Step(b, "open", [url |-> url, headers |-> o.headers], "net",
             LAMBDA w : open(w, raise_on_404[b], url, o.headers, o.netOk))

OpenFakePage(In, b) ==
    \E page_text \in In.fakeTexts, url \in In.fakeUrls :
        Step(b, "open_fake_page", [text |-> page_text, fakeurl |-> url], "fake",
             LAMBDA w : open_fake_page(w, page_text, url))

OpenRelative(In, b) ==
    \E url \in In.relUrls, netOk \in In.net :
        Step(b, "open_relative", [url |-> url], "net",
             LAMBDA w : open_relative(w, raise_on_404[b], url, None, netOk))

Refresh(In, b) ==
    \E netOk \in In.net :
        Step(b, "refresh", <<>>, "net", LAMBDA w : refresh(w, netOk))

SelectForm(In, b) ==
    \E a \in SelectorArgs(In, state[b]) :
        Step(b, "select_form", a, "none",
             LAMBDA w : select_form(w, a.selector, a.nr))

SubmitSelected(In, b) ==
    \E btnName \in In.btnNames, update_state \in BOOLEAN, o \in In.submitOpts :
        Step(b, "submit_selected",
             [update_state |-> update_state, headers |-> o.headers],
             IF update_state THEN "net" ELSE "none",
             LAMBDA w : submit_selected(w, btnName, update_state, o.headers, o.netOk))

Links(In, b) ==
    \E kw \in In.linkKw :
        Step(b, "links", [kw |-> kw], "none",
             LAMBDA w : IF w.state.page = None THEN Res(w, "NoPage", <<>>, <<>>)
                        ELSE Res(w, "ok", <<>>, IdsOf(links(w.state, kw))))

FindLink(In, b) ==
    \E kw \in In.linkKw :
        Step(b, "find_link", [kw |-> kw], "none",
             LAMBDA w : LET f == find_link(w.state, kw) IN
                        Res(w, f.outcome, <<>>,
                            IF f.outcome = "ok" THEN <<f.link.eid>> ELSE <<>>))

FollowLink(In, b) ==
    \E link \in LinkArgs(In, state[b]), bs4_kwargs \in In.bs4,
       kwargs \in In.followKw, o \in In.reqOpts :
        Step(b, "follow_link",
             [link |-> link, bs4 |-> bs4_kwargs, headers |-> o.headers,
              kw |-> kwargs],
             "net",
             LAMBDA w : follow_link(w, raise_on_404[b], link, bs4_kwargs,
                                    o.headers, kwargs, o.netOk))

DownloadLink(In, b) ==
    \E link \in LinkArgs(In, state[b]), file \in In.fileArgs,
       bs4_kwargs \in In.bs4, kwargs \in In.followKw, o \in In.reqOpts,
       diskOk \in In.disk :
        Step(b, "download_link",
             [link |-> link, bs4 |-> bs4_kwargs, headers |-> o.headers,
              kw |-> kwargs, file |-> file, diskOk |-> diskOk],
             "none",
             LAMBDA w : download_link(w, raise_on_404[b], link, file, bs4_kwargs,
                                      o.headers, kwargs, o.netOk, diskOk))

NextWith(In) ==
    \E b \in In.browsers :
        \/ Open(In, b)
        \/ OpenFakePage(In, b)
        \/ OpenRelative(In, b)
        \/ Refresh(In, b)
        \/ SelectForm(In, b)
        \/ SubmitSelected(In, b)
        \/ Links(In, b)
        \/ FindLink(In, b)
        \/ FollowLink(In, b)
        \/ DownloadLink(In, b)

\* Largest index nr passed to select_form with a selector.
MaxNr == 2

\* Navigation and submission on one instance.
InNav ==
    [browsers |-> {"B"}, raise |-> BOOLEAN,
     openUrls |-> {Url(PA1), Url(PB1), Url(PR), Url(PA2), Rel(PA1)},
     openOpts |-> {Opt(None, TRUE), Opt(None, FALSE), Opt(HTag, TRUE)},
     fakeTexts |-> DocNames, fakeUrls |-> {None, Some(Url(PB1))},
     relUrls |-> {Rel(PB1)}, net |-> BOOLEAN,
     css |-> {Css("tag", "form")}, nrs |-> {0},
     ownHandles |-> FALSE, foreign |-> {},
     btnNames |-> {"auto"},
     submitOpts |-> {Opt(None, TRUE), Opt(None, FALSE), Opt(HTag, TRUE)},
     linkKw |-> {Kw(None, None)},
     linkPatterns |-> {RxA}, ownLinks |-> FALSE, foreignLinks |-> {},
     bs4 |-> {None}, followKw |-> {EmptyDict},
     reqOpts |-> {Opt(None, TRUE)}, fileArgs |-> {None}, disk |-> {TRUE}]

Init == InitWith(InNav)
Next == NextWith(InNav)
Spec == Init /\ [][Next]_vars

\* Form selection on one instance: selectors with an index, handles of the
\* page and handles of other documents.
InForms ==
    [browsers |-> {"B"}, raise |-> {FALSE},
     openUrls |-> {Url(PB1)}, openOpts |-> {Opt(None, TRUE)},
     fakeTexts |-> DocNames, fakeUrls |-> {None},
     relUrls |-> {Rel(PB1)}, net |-> {TRUE},
     css |-> {Css("tag", "form"), Css("tag", "input"), Css("id", "g")},
     nrs |-> 0..MaxNr,
     ownHandles |-> TRUE,
     foreign |-> {Foreign("D1", 5), Foreign("D2", 6), Foreign("D2", 1), Foreign("D1", 1)},
     btnNames |-> {"auto"}, submitOpts |-> {Opt(None, TRUE)},
     linkKw |-> {Kw(None, None)},
     linkPatterns |-> {}, ownLinks |-> FALSE, foreignLinks |-> {},
     bs4 |-> {None}, followKw |-> {EmptyDict},
     reqOpts |-> {Opt(None, TRUE)}, fileArgs |-> {None}, disk |-> {TRUE}]

InitForms == InitWith(InForms)
NextForms == NextWith(InForms)
SpecForms == InitForms /\ [][NextForms]_vars

\* Looking links up on one instance.
InLinks ==
    [browsers |-> {"B"}, raise |-> {FALSE},
     openUrls |-> {Url(PA1)}, openOpts |-> {Opt(None, TRUE)},
     fakeTexts |-> {"D1", "D2"}, fakeUrls |-> {None},
     relUrls |-> {Rel(PB1)}, net |-> {TRUE},
     css |-> {Css("tag", "form")}, nrs |-> {0},
     ownHandles |-> FALSE, foreign |-> {},
     btnNames |-> {"auto"}, submitOpts |-> {Opt(None, TRUE)},
     linkKw |-> {Kw(None, None), Kw(Some(RxA), None), Kw(None, Some("A1")),
                 Kw(Some(Rx1), Some("A1")), Kw(Some(RxZ), Some("A1"))},
     linkPatterns |-> {RxA}, ownLinks |-> FALSE, foreignLinks |-> {},
     bs4 |-> {None}, followKw |-> {EmptyDict},
     reqOpts |-> {Opt(None, TRUE)}, fileArgs |-> {None}, disk |-> {TRUE}]

InitLinks == InitWith(InLinks)
NextLinks == NextWith(InLinks)
SpecLinks == InitLinks /\ [][NextLinks]_vars

\* Following and downloading links on one instance.
InFollow ==
    [browsers |-> {"B"}, raise |-> {TRUE},
     openUrls |-> {Url(PA1)}, openOpts |-> {Opt(None, TRUE)},
     fakeTexts |-> {"D1"}, fakeUrls |-> {None},
     relUrls |-> {Rel(PB1)}, net |-> {TRUE},
     css |-> {Css("tag", "form")}, nrs |-> {0},
     ownHandles |-> FALSE, foreign |-> {},
     btnNames |-> {"auto"},
     submitOpts |-> {Opt(None, TRUE), Opt(Href, TRUE)},
     linkKw |-> {Kw(None, None)},
     linkPatterns |-> {RxA}, ownLinks |-> TRUE, foreignLinks |-> {},
     bs4 |-> {None}, followKw |-> {EmptyDict},
     reqOpts |-> {Opt(None, TRUE), Opt(None, FALSE), Opt(Href, TRUE)},
     fileArgs |-> {Some("out")}, disk |-> {TRUE}]

InitFollow == InitWith(InFollow)
NextFollow == NextWith(InFollow)
SpecFollow == InitFollow /\ [][NextFollow]_vars

\* Two instances, used in any order.
InPair ==
    [browsers |-> Browsers, raise |-> {FALSE},
     openUrls |-> {Rel(PA1)}, openOpts |-> {Opt(None, TRUE)},
     fakeTexts |-> {"D1"}, fakeUrls |-> {None},
     relUrls |-> {Rel(PA1)}, net |-> {TRUE},
     css |-> {Css("tag", "form")}, nrs |-> {0},
     ownHandles |-> FALSE, foreign |-> {},
     btnNames |-> {"auto"}, submitOpts |-> {Opt(None, TRUE)},
     linkKw |-> {Kw(None, None)},
     linkPatterns |-> {RxZ}, ownLinks |-> FALSE, foreignLinks |-> {},
     bs4 |-> {None}, followKw |-> {EmptyDict},
     reqOpts |-> {Opt(None, TRUE)}, fileArgs |-> {None}, disk |-> {TRUE}]

InitPair == InitWith(InPair)
NextPair == NextWith(InPair)
SpecPair == InitPair /\ [][NextPair]_vars

\* A handle of an element of a document the caller holds.
LinkHandle(doc, eid) == [kind |-> "tag", own |-> FALSE, doc |-> doc, eid |-> eid]

\* Links given as patterns and as handles, with and without url_regex among
\* the keywords.
InConflict ==
    [browsers |-> {"B"}, raise |-> {FALSE},
     openUrls |-> {Url(PA1)}, openOpts |-> {Opt(None, TRUE)},
     fakeTexts |-> {"D2"}, fakeUrls |-> {None},
     relUrls |-> {Rel(PB1)}, net |-> {TRUE},
     css |-> {Css("tag", "form")}, nrs |-> {0},
     ownHandles |-> FALSE, foreign |-> {},
     btnNames |-> {"auto"}, submitOpts |-> {Opt(None, TRUE)},
     linkKw |-> {Kw(None, None)},
     linkPatterns |-> {RxA}, ownLinks |-> FALSE,
     foreignLinks |-> {LinkHandle("D1", 4), LinkHandle("D2", 8)},
     bs4 |-> {None, Some(Kw(Some(RxZ), None))},
     followKw |-> {EmptyDict, Kw(Some(Rx1), None)},
     reqOpts |-> {Opt(None, TRUE)}, fileArgs |-> {None}, disk |-> {TRUE}]

InitConflict == InitWith(InConflict)
NextConflict == NextWith(InConflict)
SpecConflict == InitConflict /\ [][NextConflict]_vars

\* Downloads to a file and to no file, with and without raise_on_404, on a
\* disk that may refuse the write.
InDownload ==
    [browsers |-> {"B"}, raise |-> BOOLEAN,
     openUrls |-> {Url(PA1)}, openOpts |-> {Opt(None, TRUE)},
     fakeTexts |-> {"D2"}, fakeUrls |-> {None},
     relUrls |-> {Rel(PB1)}, net |-> {TRUE},
     css |-> {Css("tag", "form")}, nrs |-> {0},
     ownHandles |-> FALSE, foreign |-> {},
     btnNames |-> {"auto"}, submitOpts |-> {Opt(None, TRUE)},
     linkKw |-> {Kw(None, None)},
     linkPatterns |-> {}, ownLinks |-> TRUE, foreignLinks |-> {},
     bs4 |-> {Some(EmptyDict)}, followKw |-> {EmptyDict},
     reqOpts |-> {Opt(None, TRUE)}, fileArgs |-> {None, Some("out")},
     disk |-> BOOLEAN]

InitDownload == InitWith(InDownload)
NextDownload == NextWith(InDownload)
SpecDownload == InitDownload /\ [][NextDownload]_vars

\* Largest verbosity level passed to set_verbose.
MaxVerbose == 2

\* One instance whose debug flag and verbosity level are set at any time.
InDebug ==
    [browsers |-> {"B"}, raise |-> {FALSE},
     openUrls |-> {Url(PA1)}, openOpts |-> {Opt(None, TRUE)},
     fakeTexts |-> {"D2"}, fakeUrls |-> {None},
     relUrls |-> {Rel(PB1)}, net |-> {TRUE},
     css |-> {Css("tag", "form")}, nrs |-> {0, 1},
     ownHandles |-> FALSE, foreign |-> {Foreign("D1", 1)},
     btnNames |-> {"auto"}, submitOpts |-> {Opt(None, TRUE)},
     linkKw |-> {Kw(None, None)},
     linkPatterns |-> {RxZ}, ownLinks |-> FALSE, foreignLinks |-> {},
     bs4 |-> {Some(EmptyDict)}, followKw |-> {EmptyDict},
     reqOpts |-> {Opt(None, TRUE)}, fileArgs |-> {None}, disk |-> {TRUE},
     debugs |-> BOOLEAN, verbosities |-> 0..MaxVerbose]

InitDebug == InitWith(InDebug)
NextDebug ==
    \/ NextWith(InDebug)
    \/ \E b \in InDebug.browsers : SetDebug(InDebug, b)
    \/ \E b \in InDebug.browsers : SetVerbose(InDebug, b)
SpecDebug == InitDebug /\ [][NextDebug]_vars

----------------------------------------------------------------------------
(* Properties *)

\* The call recorded in l replaced the state of its browser.
StateReplacing(l) ==
    /\ l.outcome = "ok"
    /\ \/ l.op \in {"open", "open_relative", "open_fake_page", "refresh",
                    "follow_link"}
       \/ l.op = "submit_selected" /\ l.args.update_state

\* C1: every successful state-replacing operation (open, open_relative,
\* open_fake_page, refresh, follow_link, submit_selected with update_state)
\* leaves the selected form null, so that the form accessor fails with the
\* unselected-form error, and the accessor goes on failing until a
\* select_form call on that browser succeeds.
C1_FormResetOnReplace ==
    [][\A b \in Browsers :
         /\ (last'.b = b /\ StateReplacing(last'))
              => (state'[b].form = None /\ form(state'[b]).outcome = "UnselectedForm")
         /\ (form(state[b]).outcome = "UnselectedForm" /\ form(state'[b]).outcome = "ok")
              => (last'.op = "select_form" /\ last'.b = b /\ last'.outcome = "ok")
      ]_vars

\* A submission with update_state, which needs a selected form, has replaced
\* the state and the form is gone.
C1_Witness ==
    /\ last.op = "submit_selected" /\ last.outcome = "ok"
    /\ last.args.update_state
    /\ form(state[last.b]).outcome = "UnselectedForm"

\* C2: after each successful open the state's url is the final URL of the
\* response (redirects followed) and not the URL asked for, the page is the
\* parsed body of that response and the stored request is the request of
\* that response.
C2_OpenStoresFinalUrl ==
    (last.op = "open" /\ last.outcome = "ok") =>
        LET st == state[last.b]
            a == Site(last.args.url.path)
        IN /\ st.url = Some(Url(a.path))
           /\ st.page = Some(Parse(a.doc))
           /\ st.request = Some([method |-> "GET", url |-> Url(a.path),
                                 headers |-> IF last.args.headers = None THEN {}
                                             ELSE Val(last.args.headers)])

\* /r was opened and the state holds /a1, where the redirect led.
C2_Witness ==
    /\ last.op = "open" /\ last.outcome = "ok"
    /\ last.args.url = Url(PR)
    /\ state[last.b].url = Some(Url(PA1))
    /\ Val(state[last.b].page).doc = "D1"

\* C3: refresh fails with Unrefreshable exactly when the state holds no
\* request, which is so exactly in the never-navigated state and when the
\* most recent state-replacing operation was open_fake_page; on that failure
\* no request is sent and page, url, form and request are unchanged.
C3_RefreshUnrefreshable ==
    [][\A b \in Browsers :
         (last'.op = "refresh" /\ last'.b = b) =>
            /\ (last'.outcome = "Unrefreshable") <=> (state[b].request = None)
            /\ (state[b].request = None) <=> (lastNav[b] \in {"init", "fake"})
            /\ (last'.outcome = "Unrefreshable")
                 => (last'.sent = <<>> /\ state'[b] = state[b])
      ]_vars

\* refresh has failed on a fake page that carries a URL.
C3_Witness ==
    /\ last.op = "refresh" /\ last.outcome = "Unrefreshable"
    /\ lastNav[last.b] = "fake"
    /\ state[last.b].url # None

\* The answer the site gives to the submission of the form selected in st.
SubmitAnswer(st) ==
    LET action == Val(st.form).node.attrs.action
        target == IF action = None THEN Val(st.url) ELSE urljoin(st.url, Val(action))
    IN Site(target.path)

\* C4: a successful submit_selected with update_state=False leaves url,
\* page, selected form and stored request as they were; with
\* update_state=True page, url and request come from the response.
C4_SubmitUpdateState ==
    [][\A b \in Browsers :
         (last'.op = "submit_selected" /\ last'.b = b /\ last'.outcome = "ok") =>
            IF last'.args.update_state
            THEN LET a == SubmitAnswer(state[b]) IN
                 /\ state'[b].page = Some(Parse(a.doc))
                 /\ state'[b].url = Some(Url(a.path))
                 /\ state'[b].request # None
                 /\ Val(state'[b].request).url = Url(a.path)
            ELSE state'[b] = state[b]
      ]_vars

\* A submission without update_state has succeeded and its answer is
\* another document than the page still held.
C4_Witness ==
    /\ last.op = "submit_selected" /\ last.outcome = "ok"
    /\ ~last.args.update_state
    /\ state[last.b].form # None
    /\ SubmitAnswer(state[last.b]).doc # Val(state[last.b].page).doc

\* C5: download_link never modifies the browser state: whatever the outcome
\* (downloaded, link not found, conflicting arguments, 404 raised as
\* NotFound, transport failure), page, url, selected form and stored request
\* are after the call what they were before it.
C5_DownloadKeepsState ==
    [][\A b \in Browsers :
         (last'.op = "download_link" /\ last'.b = b) => state'[b] = state[b]
      ]_vars

\* A link was downloaded to the file, whose content is another document than
\* the page still held.
C5_Witness ==
    /\ last.op = "download_link" /\ last.outcome = "ok"
    /\ files["out"] # None
    /\ Val(files["out"]) # Val(state[last.b].page).doc

\* Every match of a selector in a forest, in document order.
AllMatches(nodes, css) == SelectSeq(Flatten(nodes), LAMBDA e : Matches(e, css))

\* The element a handle stands for.
HandleElement(st, h) ==
    IF h.own THEN Lookup(Val(st.page).nodes, h.eid)
    ELSE Lookup(DocText(h.doc), h.eid)

\* C6: on a page, select_form with a selector and an index nr >= 0 selects
\* the nr-th match (zero-based, document order) and fails with NotFound
\* exactly when there are fewer than nr+1 matches; with an element handle it
\* fails with NotFound exactly when the element is not a form.  When the
\* call fails, page, url, selected form and request are unchanged.
C6_SelectFormIndex ==
    [][\A b \in Browsers :
         (last'.op = "select_form" /\ last'.b = b) =>
            LET a == last'.args
                st == state[b]
            IN /\ (~a.selector.isTag /\ st.page # None) =>
                    LET m == AllMatches(Val(st.page).nodes, a.selector.css) IN
                    /\ last'.outcome \in {"ok", "NotFound"}
                    /\ (last'.outcome = "NotFound") <=> (Len(m) < a.nr + 1)
                    /\ (last'.outcome = "ok") =>
                          /\ Val(state'[b].form).own
                          /\ Val(state'[b].form).node.eid = m[a.nr + 1].eid
               /\ a.selector.isTag =>
                    /\ (last'.outcome = "NotFound")
                          <=> (HandleElement(st, a.selector).name # "form")
                    /\ (last'.outcome = "ok") =>
                          Val(state'[b].form).node.eid = a.selector.eid
               /\ (last'.outcome # "ok") => state'[b] = state[b]
      ]_vars

\* select_form("form", nr=1) failed with NotFound on a page with exactly one
\* form, and the form selected before is still selected.
C6_Witness ==
    /\ last.op = "select_form" /\ last.outcome = "NotFound"
    /\ ~last.args.selector.isTag
    /\ last.args.selector.css = [kind |-> "tag", val |-> "form"]
    /\ last.args.nr = 1
    /\ Len(AllMatches(Val(state[last.b].page).nodes, last.args.selector.css)) = 1
    /\ state[last.b].form # None

\* The eids of the elements below an element.
Members(el) == Range(Eids(el.kids))

\* e is of a kind that can have a form owner and names the form form_id.
OwnedBy(e, form_id) ==
    /\ e.name \in Range(elements_with_owner_form)
    /\ e.attrs.form = Some(form_id)

\* The form element of the page that a successful select_form call resolves.
ResolvedForm(st, a) ==
    IF a.selector.isTag THEN Lookup(Val(st.page).nodes, a.selector.eid)
    ELSE AllMatches(Val(st.page).nodes, a.selector.css)[a.nr + 1]

\* C7: when select_form resolves a form of the page that has an id, the
\* members of the resulting form include every input, button, fieldset,
\* object, output, select and textarea of the page whose form attribute is
\* that id, and no element from outside the form that is of another kind or
\* has another form value; when the form has no id, no outside element is
\* added.
C7_FormOwnerMembers ==
    [][\A b \in Browsers :
         (/\ last'.op = "select_form" /\ last'.b = b /\ last'.outcome = "ok"
          /\ Val(state'[b].form).own) =>
            LET st == state[b]
                el == ResolvedForm(st, last'.args)
                all == Range(Flatten(Val(st.page).nodes))
                members == Members(Val(state'[b].form).node)
            IN IF has_attr(el, "id")
               THEN /\ \A e \in all :
                          OwnedBy(e, Val(el.attrs.id)) => e.eid \in members
                    /\ \A e \in all :
                          (e.eid \in members /\ e.eid \notin Members(el))
                             => OwnedBy(e, Val(el.attrs.id))
               ELSE members = Members(el)
      ]_vars

\* The Referer values among headers.
Referers(headers) == {e.v : e \in {x \in headers : Lower(x.k) = "referer"}}

\* C8: the request that follow_link, submit_selected and download_link send
\* carries as Referer the URL of the page that was current before the call,
\* unless the caller gave a header named Referer in any letter case, and
\* then the caller's headers are sent unchanged; when the current URL is
\* null no Referer header is added.
C8_RefererMerged ==
    [][\A b \in Browsers :
         (/\ last'.b = b /\ last'.sent # <<>>
          /\ last'.op \in {"follow_link", "submit_selected", "download_link"}) =>
            LET req == last'.sent[1]
                caller == IF last'.args.headers = None THEN {}
                          ELSE Val(last'.args.headers)
                url == state[b].url
            IN IF Referers(caller) # {} THEN req.headers = caller
               ELSE IF url # None
                    THEN /\ Referers(req.headers) = {Val(url)}
                         /\ caller \subseteq req.headers
                    ELSE req.headers = caller
      ]_vars

\* A link of the page at /a1 was followed to /b1 with no header given, and
\* the request carried Referer /a1.
C8_Witness ==
    /\ last.op = "follow_link" /\ last.outcome = "ok"
    /\ last.args.headers = None
    /\ Referers(last.sent[1].headers) = {Url(PA1)}
    /\ state[last.b].url = Some(Url(PB1))

\* The position of the element eid in the document order of a forest.
Position(nodes, eid) ==
    CHOOSE i \in 1..Len(Flatten(nodes)) : Flatten(nodes)[i].eid = eid

\* C9: on a page, links(url_regex, link_text) returns exactly the anchors
\* that carry an href and satisfy every filter given (href matched by the
\* regular expression, text equal to link_text), in document order and
\* without duplicates, and leaves the browser state unchanged.
C9_LinksFiltered ==
    [][\A b \in Browsers :
         (last'.op = "links" /\ last'.b = b /\ state[b].page # None) =>
            LET kw == last'.args.kw
                nodes == Val(state[b].page).nodes
                res == last'.result
                Wanted(e) ==
                    /\ e.name = "a" /\ has_attr(e, "href")
                    /\ kw.url_regex # None =>
                          re_search(Val(kw.url_regex), Str(Val(e.attrs.href)))
                    /\ kw.link_text # None => e.text = Val(kw.link_text)
            IN /\ last'.outcome = "ok"
               /\ Range(res) = {e.eid : e \in {x \in Range(Flatten(nodes)) : Wanted(x)}}
               /\ \A i, j \in 1..Len(res) :
                     i < j => Position(nodes, res[i]) < Position(nodes, res[j])
               /\ state'[b] = state[b]
      ]_vars

\* links(url_regex="^/a") on the page with the anchors /a1, /b1, /a2 gave
\* /a1 then /a2.
C9_Witness ==
    /\ last.op = "links" /\ last.outcome = "ok"
    /\ last.args.kw = Kw(Some(RxA), None)
    /\ Val(state[last.b].page).doc = "D1"
    /\ last.result = <<1, 3>>

\* C10: instances share no state: whatever is done on instance A, the state
\* of instance B and the outcome of the operations on B are what they are
\* when B is used alone.
C10_InstancesIndependent ==
    /\ solo.w.state = state["B"]
    /\ solo.seen.outcome = solo.outcome
    /\ solo.seen.result = solo.result

\* C11: in every reachable state page and url are both null, which is so
\* only before the first navigation, or both set, or the state was built by
\* open_fake_page and page is set while url is null; and a stored request
\* implies a url.
C11_PageUrlTogether ==
    \A b \in Browsers :
        LET st == state[b] IN
        /\ (st.page = None) <=> (lastNav[b] = "init")
        /\ (st.page = None) => (st.url = None)
        /\ (st.page # None /\ st.url = None) => (lastNav[b] = "fake")
        /\ (st.request # None) => (st.url # None)

\* A fake page was opened without a url after a page of the site: the page
\* is set, url and request are null.
C11_Witness ==
    /\ last.op = "open_fake_page" /\ last.args.fakeurl = None
    /\ last.before.req # None
    /\ state[last.b].page # None
    /\ state[last.b].url = None
    /\ state[last.b].request = None

\* C12: submit_selected called while no form is selected (no select_form
\* has succeeded since the state was built or last replaced) fails with
\* UnselectedForm, sends no request and leaves page, url, selected form and
\* request unchanged.
C12_SubmitUnselected ==
    [][\A b \in Browsers :
         (last'.op = "submit_selected" /\ last'.b = b) =>
            /\ (~track[b].sel) <=> (state[b].form = None)
            /\ (~track[b].sel) =>
                  /\ last'.outcome = "UnselectedForm"
                  /\ last'.sent = <<>>
                  /\ state'[b] = state[b]
      ]_vars

\* submit_selected has failed on a page of the site that is loaded, with no
\* form selected on it.
C12_Witness ==
    /\ last.op = "submit_selected" /\ last.outcome = "UnselectedForm"
    /\ ~last.before.sel
    /\ lastNav[last.b] = "net"
    /\ state[last.b].page # None

\* C13: refresh sends exactly the request stored by the most recent
\* state-replacing network operation, whatever download_link and
\* submit_selected(update_state=False) calls were made since, and on success
\* page, url and request come from the answer to that request.
C13_RefreshResends ==
    [][\A b \in Browsers :
         (last'.op = "refresh" /\ last'.b = b /\ track[b].req # None) =>
            LET req == Val(track[b].req)
                a == Site(req.url.path)
            IN /\ last'.outcome \in {"ok", "TransportError"}
               /\ last'.sent = <<req>>
               /\ (last'.outcome = "ok") =>
                     /\ state'[b].page = Some(Parse(a.doc))
                     /\ state'[b].url = Some(Url(a.path))
                     /\ state'[b].request = Some([req EXCEPT !.url = Url(a.path)])
                     /\ state'[b].form = None
               /\ (last'.outcome # "ok") => state'[b] = state[b]
      ]_vars

\* A form was submitted by POST with update_state, a call that keeps the
\* state has sent another request since, and refresh has sent the POST
\* again with its Referer.
C13_Witness ==
    /\ last.op = "refresh" /\ last.outcome = "ok"
    /\ last.before.side
    /\ last.sent[1].method = "POST"
    /\ Referers(last.sent[1].headers) # {}

\* C14: a successful select_form changes only the selected form: url and
\* request are unchanged and the page document is as it was, every element
\* at its place.
C14_SelectFormKeepsPage ==
    [][\A b \in Browsers :
         (/\ last'.op = "select_form" /\ last'.b = b /\ last'.outcome = "ok"
          /\ state[b].page # None) =>
            /\ state'[b].url = state[b].url
            /\ state'[b].request = state[b].request
            /\ state'[b].page = state[b].page
      ]_vars

\* C15: follow_link and download_link given both a raw pattern as link (any
\* value that is not a handle carrying an href) and a url_regex keyword
\* fail with ConflictingArgument, sending nothing and leaving page, url,
\* selected form and request unchanged; given a handle that carries an
\* href they look nothing up and request that href, resolved against the
\* current URL, whatever the keywords and the page are.
C15_ConflictingArgument ==
    [][\A b \in Browsers :
         (last'.op \in {"follow_link", "download_link"} /\ last'.b = b) =>
            LET a == last'.args
                handle == /\ a.link.kind = "tag"
                          /\ has_attr(LinkElement(state[b], a.link), "href")
                raw == a.link.kind # "none" /\ ~handle
                explicit == \/ a.kw.url_regex # None
                            \/ a.bs4 # None /\ Val(a.bs4).url_regex # None
            IN /\ (raw /\ explicit) =>
                    /\ last'.outcome = "ConflictingArgument"
                    /\ last'.sent = <<>> /\ last'.result = <<>>
                    /\ state'[b] = state[b]
               /\ handle =>
                    LET el == LinkElement(state[b], a.link) IN
                    /\ last'.outcome \in {"ok", "NotFound", "TransportError"}
                    /\ last'.result = <<el.eid>>
                    /\ Len(last'.sent) = 1
                    /\ last'.sent[1].url = urljoin(state[b].url, Val(el.attrs.href))
      ]_vars

\* On a loaded page, a pattern was given together with url_regex as a
\* keyword while the default dictionary held no url_regex: the call failed
\* with ConflictingArgument.
C15_Witness ==
    /\ last.op = "download_link" /\ last.outcome = "ConflictingArgument"
    /\ last.args.link.kind = "pattern"
    /\ last.args.bs4 = None
    /\ last.args.kw.url_regex # None
    /\ state[last.b].page # None

\* C16: when open, open_relative, refresh, follow_link or submit_selected
\* fails, page, url, selected form and stored request are what they were
\* before the call; when one of them replaces the state, page, url and
\* request all come from the one response and no form is selected.
C16_AtomicReplace ==
    [][\A b \in Browsers :
         (/\ last'.b = b
          /\ last'.op \in {"open", "open_relative", "refresh", "follow_link",
                           "submit_selected"}) =>
            /\ (last'.outcome # "ok") => state'[b] = state[b]
            /\ StateReplacing(last') =>
                  LET st == state'[b] IN
                  /\ st.form = None
                  /\ st.request # None /\ st.url # None /\ st.page # None
                  /\ Val(st.url) = Val(st.request).url
                  /\ Val(st.page) = Parse(Site(Val(st.url).path).doc)
      ]_vars

\* The transport has failed under refresh on a page with a selected form,
\* and page and form are still there.
C16_Witness ==
    /\ last.op = "refresh" /\ last.outcome = "TransportError"
    /\ last.sent # <<>>
    /\ state[last.b].page # None
    /\ state[last.b].form # None

\* C17: the debug flag and the verbosity level only add output: whatever
\* they are, a call leaves the state, the default dictionaries and the files
\* and has the outcome, the result and the request that it has with debug
\* off and verbosity 0; and with debug on, a select_form or a link lookup
\* that finds nothing still fails with NotFound, after the diagnostic output
\* and the launch of the viewer.
C17_DebugObservational ==
    /\ quiet.state = state[last.b]
    /\ quiet.outcome = last.outcome
    /\ quiet.result = last.result
    /\ quiet.sent = last.sent
    /\ quiet.fd = follow_defaults /\ quiet.dd = download_defaults
    /\ quiet.files = files /\ quiet.handles = handles
    /\ (/\ last.op = "select_form" /\ debug[last.b]
        /\ ~last.args.selector.isTag /\ quiet.outcome = "NotFound") =>
          /\ last.outcome = "NotFound"
          /\ last.out = <<"select_form failed", "launch_browser">>
    /\ (/\ last.op \in {"follow_link", "download_link"} /\ debug[last.b]
        /\ quiet.outcome = "NotFound" /\ quiet.sent = <<>>) =>
          /\ last.outcome = "NotFound"
          /\ Len(last.out) >= 3
          /\ last.out[1] = "find_link failed"
          /\ last.out[2] = "Links in the current page:"
          /\ last.out[Len(last.out)] = "launch_browser"
    /\ (last.out # <<>>) => (debug[last.b] \/ verbose[last.b] > 0)

\* With debug on and verbosity 2, follow_link has found no link on a page
\* that has links: the links were listed, the viewer was launched and the
\* call failed with NotFound.
C17_Witness ==
    /\ last.op = "follow_link" /\ last.outcome = "NotFound"
    /\ debug[last.b] /\ verbose[last.b] = 2
    /\ Len(last.out) > 3
    /\ last.out[Len(last.out)] = "launch_browser"

\* C18: download_link with raise_on_404 set fails with NotFound on a 404
\* answer and leaves the files as they were; without the flag a 404 answer
\* is a success like any other.  A call that succeeds with a path leaves the
\* file holding exactly the body of the answer, whatever it held before, a
\* call without a path or with another outcome than a failed write leaves
\* every file as it was, and no file is open when the call has returned.
C18_DownloadFile ==
    [][\A b \in Browsers :
         (last'.op = "download_link" /\ last'.b = b) =>
            LET a == last'.args
                answered == /\ last'.sent # <<>>
                            /\ last'.outcome # "TransportError"
                answer == Site(last'.sent[1].url.path)
            IN /\ handles' = {}
               /\ (a.file = None) => files' = files
               /\ (last'.outcome \notin {"ok", "IOError"}) => files' = files
               /\ answered =>
                    /\ (raise_on_404[b] /\ answer.status = 404)
                          <=> (last'.outcome = "NotFound")
                    /\ (last'.outcome = "NotFound") => files' = files
                    /\ (last'.outcome = "ok" /\ a.file # None) =>
                          files' = [files EXCEPT ![Val(a.file)] = Some(answer.doc)]
                    /\ (last'.outcome = "ok") <=>
                          /\ ~(raise_on_404[b] /\ answer.status = 404)
                          /\ (a.file = None \/ a.diskOk)
      ]_vars

\* Without raise_on_404 a link that answers 404 was downloaded: the call
\* succeeded and the file holds the body of the 404 answer.
C18_Witness ==
    /\ last.op = "download_link" /\ last.outcome = "ok"
    /\ ~raise_on_404[last.b]
    /\ Site(last.sent[1].url.path).status = 404
    /\ files["out"] = Some("D3")
    /\ handles = {}

\* C19: the link that follow_link and download_link resolve depends on the
\* current page and on the arguments of the call only: on a page, a call
\* with no link and no keyword resolves to the first link of the page, and
\* a call with a pattern and no keyword resolves to the first link the
\* pattern matches and never fails with ConflictingArgument, whatever
\* calls were made before.
C19_LookupFromCallOnly ==
    [][\A b \in Browsers :
         (/\ last'.op \in {"follow_link", "download_link"} /\ last'.b = b
          /\ state[b].page # None
          /\ last'.args.kw = EmptyDict
          /\ (last'.args.bs4 = None \/ last'.args.bs4 = Some(EmptyDict))) =>
            LET a == last'.args
                found == IF a.link.kind = "pattern"
                         THEN links(state[b], Kw(Some(a.link.pat), None))
                         ELSE links(state[b], EmptyDict)
            IN (a.link.kind \in {"none", "pattern"}) =>
                  /\ last'.outcome # "ConflictingArgument"
                  /\ IF found = <<>>
                     THEN last'.outcome = "NotFound" /\ last'.sent = <<>>
                     ELSE last'.result = <<found[1].eid>>
      ]_vars

\* C20: in every reachable state the selected form is null or is a form
\* element of the current page, and a selected form implies a page.
C20_FormOfCurrentPage ==
    \A b \in Browsers :
        (state[b].form # None) =>
            /\ state[b].page # None
            /\ Val(state[b].form).own
            /\ Val(state[b].form).doc = Val(state[b].page).doc
            /\ Val(state[b].form).node \in Range(Flatten(Val(state[b].page).nodes))
            /\ Val(state[b].form).node.name = "form"

====
